---- MODULE Spec2Model ----
(***************************************************************************)
(* Message routes of the agent wallboard backend                           *)
(* (backend-server/routes/messages.js) together with the socket.io server  *)
(* they push through (server.js).  The three HTTP handlers are modelled    *)
(* with their suspension points: POST /send is split at `await             *)
(* newMessage.save()`, so that connects, registrations and disconnects of  *)
(* live connections interleave between the request and the push.           *)
(***************************************************************************)
EXTENDS Integers, Sequences, FiniteSets

\* ------------------------------------------------------------------ bounds
MaxConns == 2      \* live connections ever opened
MaxSends == 1      \* send requests while connections come and go
MaxMsgs == 2       \* Message documents the store operations work on
MaxTime == 2       \* values of the clock read by new Date()

\* --------------------------------------------------------------- constants
DefaultLimit == 50
NoDate == 0        \* readAt of a document that was never marked read

Undefined == "undefined"
Null == "null"

Handles == 1..MaxConns
MsgIds == 1..MaxMsgs

Identities == {"A100", "A200"}
Principals == {<<"A100", "agent">>, <<"A200", "agent">>, <<"S1", "supervisor">>}
FromCodes == {Undefined, "A100"}
MessageTexts == {Undefined, "", "hi"}
ContentTexts == {Undefined, "hi"}
\* The <<type, toCode>> of the send requests: to A200 with the type left out
\* or 'direct', and a broadcast.
Addressings == {<<Undefined, "A200">>, <<"direct", "A200">>, <<"broadcast", Undefined>>}
EligibleRoles == {"agent", "supervisor"}

VARIABLES conn, now, nextId, store, pending, pushLog, replies, firstMark, inbox, up

vars == <<conn, now, nextId, store, pending, pushLog, replies, firstMark, inbox, up>>

\* ----------------------------------------------------------------- helpers
\* JavaScript truthiness of the values a request field takes here.
Falsy(v) == v \in {Undefined, Null, ""}

\* A destructuring default: { v = d } = req.body
Default(v, d) == IF v = Undefined THEN d ELSE v

\* a || b
OrElse(a, b) == IF Falsy(a) THEN b ELSE a

\* Sockets currently connected to the default namespace.
Connected == {h \in Handles : conn[h].state \in {"connecting", "active"}}

\* Connections that are identified and registered.
Active == {h \in Handles : conn[h].state = "active"}

\* Members of the room named `room`: the connection registered under it.
RoomMembers(room) == {h \in Active : conn[h].identity = room}

\* io.emit(...): every connected socket.
BroadcastTargetsReplay == {h \in Handles : conn[h].state # "closed"}
BroadcastTargets == Connected

\* io.to(toCode).emit(...)
DirectTargetsEveryone(toCode) == Connected
DirectTargets(toCode) == RoomMembers(toCode)

StoredIds == {m.id : m \in store}

\* No inbox query answered yet.
NoInbox == [status |-> 0, messages |-> <<>>, agentCode |-> Undefined, limit |-> <<>>]

Init ==
    /\ conn = [h \in Handles |-> [state |-> "none", identity |-> Undefined, role |-> Undefined]]
    /\ now = 1
    /\ nextId = 1
    /\ store = {}
    /\ pending = {}
    /\ pushLog = {}
    /\ replies = {}
    /\ firstMark = [i \in MsgIds |-> NoDate]
    /\ inbox = NoInbox
    /\ up = TRUE

ClosedConn == [state |-> "closed", identity |-> Undefined, role |-> Undefined]

\* ------------------------------------------------------ live connections
\* A client opens a socket: it is connected, not yet identified.
Connect ==
    /\ up
    /\ \E h \in Handles :
        /\ conn[h].state = "none"
        /\ \A g \in Handles : g < h => conn[g].state # "none"
        /\ conn' = [conn EXCEPT ![h].state = "connecting"]
    /\ UNCHANGED <<now, nextId, store, pending, pushLog, replies, firstMark, inbox, up>>

\* agent_connect / supervisor_connect: the connection is registered under its
\* identity; a live connection already registered under it is superseded.
Register(h, identity, role) ==
    /\ up
    /\ conn[h].state = "connecting"
    /\ conn' = [g \in Handles |->
                  IF g = h
                  THEN [state |-> "active", identity |-> identity, role |-> role]
                  ELSE IF conn[g].state = "active" /\ conn[g].identity = identity
                       THEN ClosedConn
                       ELSE conn[g]]
    /\ UNCHANGED <<now, nextId, store, pending, pushLog, replies, firstMark, inbox, up>>

\* A handshake without an identity: the connection is closed at once.
RegisterInvalid(h) ==
    /\ up
    /\ conn[h].state = "connecting"
    /\ conn' = [conn EXCEPT ![h] = ClosedConn]
    /\ UNCHANGED <<now, nextId, store, pending, pushLog, replies, firstMark, inbox, up>>

\* disconnect or transport failure: the socket leaves every room.
Disconnect(h) ==
    /\ up
    /\ h \in Connected
    /\ conn' = [conn EXCEPT ![h] = ClosedConn]
    /\ UNCHANGED <<now, nextId, store, pending, pushLog, replies, firstMark, inbox, up>>

\* The clock read by new Date() advances.
Tick ==
    /\ up
    /\ now < MaxTime
    /\ now' = now + 1
    /\ UNCHANGED <<conn, nextId, store, pending, pushLog, replies, firstMark, inbox, up>>

\* ------------------------------------------------------------- POST /send
\* if (!fromCode || !text)
InvalidSendBoth(fromCode, text) == Falsy(fromCode) /\ Falsy(text)
InvalidSend(fromCode, text) == Falsy(fromCode) \/ Falsy(text)

\* new Message({...})
NewMessage(fromCode, toCode, text, type, priority) ==
    [id |-> nextId,
     fromCode |-> fromCode,
     toCode |-> IF type = "broadcast" THEN Null ELSE toCode,
     content |-> text,
     type |-> type,
     priority |-> priority,
     timestamp |-> now,
     isRead |-> FALSE,
     readAt |-> NoDate]

\* The request fails validation: 400, nothing else happens.
SendReject(fromCode, message, content) ==
    /\ up
    /\ InvalidSend(fromCode, OrElse(message, content))
    /\ replies' = replies \cup {[op |-> "send", status |-> 400, id |-> 0]}
    /\ UNCHANGED <<conn, now, nextId, store, pending, pushLog, firstMark, inbox, up>>

\* The registered connections a message is addressed to: every registered
\* connection for a broadcast, the one registered under toCode otherwise.
Addressees(type, toCode) ==
    IF type = "broadcast"
    THEN {h \in Active : conn[h].role \in EligibleRoles}
    ELSE RoomMembers(toCode)

\* The request passes validation; the document is built and the handler
\* suspends at `await newMessage.save()`.
SendRequest(fromCode, toCode, message, content, reqType, reqPriority) ==
    LET type == Default(reqType, "direct")
        priority == Default(reqPriority, "normal")
    IN
    /\ up
    /\ ~InvalidSend(fromCode, OrElse(message, content))
    /\ pending' = pending \cup
          {[msg |-> NewMessage(fromCode, toCode, OrElse(message, content), type, priority),
            type |-> type,
            toCode |-> toCode,
            addressedAtReq |-> Addressees(type, toCode)]}
    /\ nextId' = nextId + 1
    /\ UNCHANGED <<conn, now, store, pushLog, replies, firstMark, inbox, up>>

\* The event name and the sockets the push of p reaches.
PushEvent(p) ==
    IF p.type = "broadcast" THEN "new_broadcast_message" ELSE "new_direct_message"

PushTargetsSwapped(p) ==
    IF p.type # "broadcast" THEN BroadcastTargets ELSE DirectTargets(p.toCode)
PushTargetsStale(p) ==
    IF p.type = "broadcast" THEN BroadcastTargets ELSE p.addressedAtReq
PushTargets(p) ==
    IF p.type = "broadcast" THEN BroadcastTargets ELSE DirectTargets(p.toCode)

\* One emit: the sockets it reaches, those of them that are open connections
\* when it happens, and the connections the message is addressed to then and
\* was addressed to when the request arrived.
PushEntry(p) ==
    [id |-> p.msg.id,
     event |-> PushEvent(p),
     type |-> p.type,
     toCode |-> p.toCode,
     targets |-> PushTargets(p),
     openTargets |-> PushTargets(p) \cap Connected,
     addressedAtPush |-> Addressees(p.type, p.toCode),
     addressedAtReq |-> p.addressedAtReq]

\* save() resolves: the document is stored, the push is emitted, 200.
SaveOk(p) ==
    /\ up
    /\ p \in pending
    /\ pending' = pending \ {p}
    /\ store' = store \cup {p.msg}
    /\ pushLog' = pushLog \cup {PushEntry(p)}
    /\ replies' = replies \cup {[op |-> "send", status |-> 200, id |-> p.msg.id]}
    /\ UNCHANGED <<conn, now, nextId, firstMark, inbox, up>>

\* save() rejects: the catch block answers 500.
SaveFailPushes(p) ==
    /\ up
    /\ p \in pending
    /\ pending' = pending \ {p}
    /\ pushLog' = pushLog \cup {PushEntry(p)}
    /\ replies' = replies \cup {[op |-> "send", status |-> 500, id |-> p.msg.id]}
    /\ UNCHANGED <<conn, now, nextId, store, firstMark, inbox, up>>
SaveFail(p) ==
    /\ up
    /\ p \in pending
    /\ pending' = pending \ {p}
    /\ replies' = replies \cup {[op |-> "send", status |-> 500, id |-> p.msg.id]}
    /\ UNCHANGED <<conn, now, nextId, store, pushLog, firstMark, inbox, up>>

\* ------------------------------------------------- PUT /:messageId/read
\* Message.findByIdAndUpdate(messageId, {isRead: true, readAt: new Date()})
MarkRead(messageId) ==
    /\ up
    /\ store' = {IF m.id = messageId
                 THEN [m EXCEPT !.isRead = TRUE, !.readAt = now]
                 ELSE m : m \in store}
    /\ firstMark' = IF messageId \in StoredIds /\ firstMark[messageId] = NoDate
                    THEN [firstMark EXCEPT ![messageId] = now]
                    ELSE firstMark
    /\ replies' = replies \cup {[op |-> "read", status |-> 200, id |-> 0]}
    /\ UNCHANGED <<conn, now, nextId, pending, pushLog, inbox, up>>

\* The update rejects: the catch block answers 500.
MarkReadFail(messageId) ==
    /\ up
    /\ replies' = replies \cup {[op |-> "read", status |-> 500, id |-> 0]}
    /\ UNCHANGED <<conn, now, nextId, store, pending, pushLog, firstMark, inbox, up>>

\* ------------------------------------------------- GET /agent/:agentCode
Digits == {"0", "1", "2", "3", "4", "5", "6", "7", "8", "9"}

DigitValue(d) ==
    CASE d = "0" -> 0 [] d = "1" -> 1 [] d = "2" -> 2 [] d = "3" -> 3 [] d = "4" -> 4
      [] d = "5" -> 5 [] d = "6" -> 6 [] d = "7" -> 7 [] d = "8" -> 8 [] d = "9" -> 9

\* The longest prefix of s made of digits.
RECURSIVE DigitPrefix(_)
DigitPrefix(s) ==
    IF s = <<>> \/ Head(s) \notin Digits THEN <<>> ELSE <<Head(s)>> \o DigitPrefix(Tail(s))

RECURSIVE DigitsValue(_)
DigitsValue(s) ==
    IF s = <<>> THEN 0 ELSE 10 * DigitsValue(SubSeq(s, 1, Len(s) - 1)) + DigitValue(s[Len(s)])

\* parseInt(q): an optional sign, then the leading digits; NaN when there are
\* none.  A query string is a sequence of characters, <<>> an absent parameter.
ParseInt(q) ==
    LET neg == q # <<>> /\ Head(q) = "-"
        body == IF q # <<>> /\ Head(q) \in {"-", "+"} THEN Tail(q) ELSE q
        ds == DigitPrefix(body)
    IN  IF ds = <<>>
        THEN [nan |-> TRUE, val |-> 0]
        ELSE [nan |-> FALSE, val |-> IF neg THEN 0 - DigitsValue(ds) ELSE DigitsValue(ds)]

\* parseInt(req.query.limit) || 50
Limit(q) == IF ParseInt(q).nan \/ ParseInt(q).val = 0 THEN DefaultLimit ELSE ParseInt(q).val

\* Message.find({$or: [{toCode: agentCode}, {type: 'broadcast'}]})
Matching(agentCode) == {m \in store : m.toCode = agentCode \/ m.type = "broadcast"}

\* .sort({timestamp: -1}): every order of S that is newest first.
SortedNewestFirst(S) ==
    {s \in [1..Cardinality(S) -> S] :
        /\ \A i, j \in 1..Cardinality(S) : i # j => s[i] # s[j]
        /\ \A i \in 1..(Cardinality(S) - 1) : s[i].timestamp >= s[i + 1].timestamp}

Take(s, n) == SubSeq(s, 1, IF n < Len(s) THEN n ELSE Len(s))

\* .limit(n): the first n documents; a negative n is handed to the driver as
\* it is, which returns the first |n| in a single batch or rejects the query.
Limited(s, n) ==
    IF n > 0
    THEN {[status |-> 200, messages |-> Take(s, n)]}
    ELSE {[status |-> 200, messages |-> Take(s, 0 - n)], [status |-> 500, messages |-> <<>>]}

QueryLimits == {<<>>, <<"a">>, <<"0">>, <<"1">>, <<"2">>, <<"-", "1">>, <<"2", "a">>}

GetInbox(agentCode, q) ==
    /\ up
    /\ \E s \in SortedNewestFirst(Matching(agentCode)) :
         \E r \in Limited(s, Limit(q)) :
            inbox' = [status |-> r.status, messages |-> r.messages,
                      agentCode |-> agentCode, limit |-> q]
    /\ UNCHANGED <<conn, now, nextId, store, pending, pushLog, replies, firstMark, up>>

\* The query rejects: the catch block answers 500.
GetInboxFail(agentCode, q) ==
    /\ up
    /\ inbox' = [status |-> 500, messages |-> <<>>, agentCode |-> agentCode, limit |-> q]
    /\ UNCHANGED <<conn, now, nextId, store, pending, pushLog, replies, firstMark, up>>

\* ---------------------------------------------------------- specifications
Next ==
    \/ Connect
    \/ \E h \in Handles, p \in Principals : Register(h, p[1], p[2])
    \/ \E h \in Handles : RegisterInvalid(h)
    \/ \E h \in Handles : Disconnect(h)
    \/ Tick
    \/ \E f \in FromCodes, m \in MessageTexts, c \in ContentTexts : SendReject(f, m, c)
    \/ \E f \in FromCodes, a \in Addressings, m \in MessageTexts, c \in ContentTexts :
          nextId <= MaxSends /\ SendRequest(f, a[2], m, c, a[1], Undefined)
    \/ \E p \in pending : SaveOk(p)
    \/ \E p \in pending : SaveFail(p)
    \/ \E i \in MsgIds : MarkRead(i)
    \/ \E i \in MsgIds : MarkReadFail(i)
    \/ \E a \in Identities, q \in QueryLimits : GetInbox(a, q)
    \/ \E a \in Identities, q \in QueryLimits : GetInboxFail(a, q)

Spec == Init /\ [][Next]_vars

\* Sends while live connections open, register and close.
NextDelivery ==
    \/ Connect
    \/ \E h \in Handles, p \in Principals : Register(h, p[1], p[2])
    \/ \E h \in Handles : RegisterInvalid(h)
    \/ \E h \in Handles : Disconnect(h)
    \/ \E f \in FromCodes, m \in MessageTexts, c \in ContentTexts : SendReject(f, m, c)
    \/ \E f \in FromCodes, a \in Addressings, m \in MessageTexts, c \in ContentTexts :
          nextId <= MaxSends /\ SendRequest(f, a[2], m, c, a[1], Undefined)
    \/ \E p \in pending : SaveOk(p)
    \/ \E p \in pending : SaveFail(p)

SpecDelivery == Init /\ [][NextDelivery]_vars

\* The three routes against the store, with no live connection.
NextStore ==
    \/ Tick
    \/ \E f \in FromCodes, a \in Addressings, m \in MessageTexts, c \in ContentTexts :
          nextId <= MaxMsgs /\ SendRequest(f, a[2], m, c, a[1], Undefined)
    \/ \E p \in pending : SaveOk(p)
    \/ \E p \in pending : SaveFail(p)
    \/ \E i \in MsgIds : MarkRead(i)
    \/ \E i \in MsgIds : MarkReadFail(i)
    \/ \E a \in Identities, q \in QueryLimits : GetInbox(a, q)
    \/ \E a \in Identities, q \in QueryLimits : GetInboxFail(a, q)

SpecStore == Init /\ [][NextStore]_vars

\* ------------------------------------------------------------------ claims
Directs == {e \in pushLog : e.type = "direct"}
Broadcasts == {e \in pushLog : e.type = "broadcast"}
Records(id) == {m \in store : m.id = id}
PendingIds == {p.msg.id : p \in pending}

\* C1: a direct message whose toCode names an identity with no live
\* connection when the push is emitted is stored as exactly one record, with
\* that toCode and type 'direct', and its push reaches no connection.
C1_OfflineDirectStoredNotPushed ==
    \A e \in Directs :
        (e.toCode \in Identities /\ e.addressedAtPush = {}) =>
            /\ e.targets = {}
            /\ Cardinality(Records(e.id)) = 1
            /\ \A m \in Records(e.id) : m.toCode = e.toCode /\ m.type = "direct"

\* A direct message to A200 was stored and pushed with A200 offline: the push
\* reached nobody; a connection is open.
C1_Witness ==
    \E e \in Directs :
        /\ e.toCode = "A200"
        /\ e.addressedAtPush = {}
        /\ e.targets = {}
        /\ Records(e.id) # {}
        /\ e.id \notin PendingIds
        /\ Connected # {}

\* C2: new_broadcast_message reaches exactly the connections that are
\* registered with an eligible role when the push is emitted (every role
\* taken as eligible), and no connection that is not yet identified.
C2_BroadcastOnlyToActive ==
    \A e \in Broadcasts :
        /\ e.event = "new_broadcast_message"
        /\ e.targets = e.addressedAtPush

\* C3: every emitted push is for a stored record; a send whose insert failed
\* is acknowledged with a failure, stores nothing and pushes nothing, and the
\* server stays up.
C3_PushOnlyAfterPersist ==
    /\ \A e \in pushLog : Records(e.id) # {}
    /\ \A i \in 1..(nextId - 1) :
          i \notin PendingIds =>
             \/ /\ [op |-> "send", status |-> 200, id |-> i] \in replies
                /\ Records(i) # {}
             \/ /\ [op |-> "send", status |-> 500, id |-> i] \in replies
                /\ [op |-> "send", status |-> 200, id |-> i] \notin replies
                /\ Records(i) = {}
                /\ \A e \in pushLog : e.id # i
    /\ up

\* An insert failed: failure acknowledged, nothing stored, nothing pushed; a
\* connection is open.
C3_Witness ==
    \E r \in replies :
        /\ r.op = "send" /\ r.status = 500
        /\ Records(r.id) = {}
        /\ \A e \in pushLog : e.id # r.id
        /\ Connected # {}
        /\ up

\* C4: however often a stored message is marked read, isRead is true and
\* readAt is the time of the first mark.
C4_ReadAtIsFirstMark ==
    \A m \in store :
        /\ (firstMark[m.id] # NoDate) = m.isRead
        /\ m.isRead => m.readAt = firstMark[m.id]

C6_DisconnectWhilePending ==
    \A e \in Directs : \A h \in e.addressedAtReq :
        h \notin e.addressedAtPush =>
            /\ h \notin e.targets
            /\ Records(e.id) # {}
            /\ [op |-> "send", status |-> 200, id |-> e.id] \in replies

\* The recipient's connection closed between the request and the push.
C6_Witness ==
    \E e \in Directs : \E h \in e.addressedAtReq :
        /\ h \notin e.addressedAtPush
        /\ conn[h].state = "closed"
        /\ e.targets = {}
        /\ Records(e.id) # {}

C8_RecordsImmutableButRead ==
    [][\A m \in store : \E n \in store' :
          /\ n.id = m.id
          /\ n.fromCode = m.fromCode
          /\ n.toCode = m.toCode
          /\ n.content = m.content
          /\ n.type = m.type
          /\ n.priority = m.priority
          /\ n.timestamp = m.timestamp
          /\ m.isRead => n.isRead
          /\ m.isRead => n.readAt = m.readAt]_vars

\* The limit the claim gives a query: its value when it is a positive
\* integer, 50 otherwise.
ClaimedLimit(q) ==
    IF q # <<>> /\ DigitPrefix(q) = q /\ DigitsValue(q) > 0 THEN DigitsValue(q) ELSE DefaultLimit

\* C9: an answered inbox query returns the stored records addressed to the
\* identity or of type 'broadcast', newest first, cut to the limit (50
\* without a valid positive limit), and changes no record.
C9_InboxIsMatchingNewestFirstLimited ==
    [][(inbox' # inbox /\ inbox'.status = 200) =>
          /\ store' = store
          /\ \E s \in SortedNewestFirst(Matching(inbox'.agentCode)) :
                inbox'.messages = Take(s, ClaimedLimit(inbox'.limit))]_vars

\* No document was built from a request without fromCode or text.
NoBlankRecord ==
    \A m \in store \cup {p.msg : p \in pending} : ~Falsy(m.fromCode) /\ ~Falsy(m.content)

Rejected == [op |-> "send", status |-> 400, id |-> 0]

\* C10: a send request without fromCode or without text never becomes a
\* record, and the step that answers it with the error changes nothing else:
\* no record, no pending write, no push, and the server stays up.
C10_InvalidSendRejected ==
    /\ []NoBlankRecord
    /\ [][(Rejected \in replies' /\ Rejected \notin replies) =>
             /\ UNCHANGED <<conn, nextId, store, pending, pushLog, firstMark, up>>
             /\ up']_vars

\* An invalid send was rejected and left no record, no pending write and no
\* push; a connection is open.
C10_Witness ==
    /\ Rejected \in replies
    /\ store = {} /\ pending = {} /\ pushLog = {} /\ nextId = 1
    /\ Connected # {}
    /\ up
====
